---------------------------- MODULE Spec2Model ----------------------------
(***************************************************************************)
(* A model of hoot's HTTP/1.x header grammar engine:                       *)
(*   src/src/lib.rs         parse_request_header, parse_request_line,      *)
(*                          parse_header_field                              *)
(*   src/src/media_type.rs  parse_media_type                                *)
(* Octets are the naturals 0..255, byte strings are sequences of octets.   *)
(***************************************************************************)
EXTENDS Integers, Sequences, FiniteSets, TLC

VARIABLES
    stream,     \* parse_request_header: the octets the BufRead will deliver
    pos,        \* number of octets of stream consumed so far
    line,       \* the reused line buffer (lib.rs:80)
    pc,         \* position of parse_request_header / of the called function
    method,     \* lib.rs:87
    uri,        \* lib.rs:87
    version,    \* lib.rs:87
    fields,     \* lib.rs:88, the HeaderMap
    result,     \* what the call returned
    ioFailed,   \* history: the stream read returned an io::Error
    input,      \* argument of a direct call of one of the pure parsers
    s,          \* parse_media_type: the unconsumed rest of the input
    m           \* parse_media_type: the MediaType under construction

vars == <<stream, pos, line, pc, method, uri, version, fields, result,
          ioFailed, input, s, m>>

headerVars == <<stream, pos, line, method, uri, version, fields, ioFailed>>
mediaVars == <<s, m>>

----------------------------------------------------------------------------
(* Octets that the source names in its patterns and literals.              *)

HTAB == 9
LF == 10
CR == 13
SP == 32
DQUOTE == 34
SLASH == 47
COLON == 58
SEMI == 59
EQUALS == 61
BACKSLASH == 92

LINE_CAP == 16384

CRLF == <<CR, LF>>

None == <<>>

Ok(v) == [ok |-> TRUE, val |-> v, err |-> <<>>]
Err(e) == [ok |-> FALSE, val |-> <<>>, err |-> e]
NoResult == [ok |-> FALSE, val |-> <<>>, err |-> <<"pending">>]

Min(a, b) == IF a <= b THEN a ELSE b

\* The least i in lo..hi with P[i], or 0 when there is none; seq is scanned
\* from the left as the regex engine and read_until do.
FirstIn(seq, lo, hi, set) ==
    IF \E i \in lo..hi : seq[i] \in set
    THEN CHOOSE i \in lo..hi :
            seq[i] \in set /\ \A j \in lo..(i - 1) : seq[j] \notin set
    ELSE 0

FirstNotIn(seq, lo, hi, set) ==
    IF \E i \in lo..hi : seq[i] \notin set
    THEN CHOOSE i \in lo..hi :
            seq[i] \notin set /\ \A j \in lo..(i - 1) : seq[j] \in set
    ELSE 0

LastNotIn(seq, lo, hi, set) ==
    IF \E i \in lo..hi : seq[i] \notin set
    THEN CHOOSE i \in lo..hi :
            seq[i] \notin set /\ \A j \in (i + 1)..hi : seq[j] \in set
    ELSE 0

EndsWith(seq, suffix) ==
    /\ Len(seq) >= Len(suffix)
    /\ SubSeq(seq, Len(seq) - Len(suffix) + 1, Len(seq)) = suffix

----------------------------------------------------------------------------
(* Grammar primitives: the character classes of the patterns.              *)

\* [!#$%&'*+.^_`|~0-9A-Za-z-]
TokenChars ==
    {33, 35, 36, 37, 38, 39, 42, 43, 46, 94, 95, 96, 124, 126, 45}
        \cup (48..57) \cup (65..90) \cup (97..122)

\* [\t ]
OWSChars == {HTAB, SP}

\* The class without the opaque octets \x80-\xFF.
VisibleCharsAscii == 33..126

\* [!-~\x80-\xFF]
VisibleChars == (33..126) \cup (128..255)

\* \s under (?-u): [\t\n\v\f\r ]
SpaceChars == {9, 10, 11, 12, 13, 32}

ToLower(c) == IF c \in 65..90 THEN c + 32 ELSE c

----------------------------------------------------------------------------
(* parse_request_line (lib.rs:150-177)                                     *)

\* The pattern without its end anchor: content after the version is ignored.
RequestLineCapturesUnanchored(b) ==
    LET n == Len(b)
        p == FirstIn(b, 1, n, SpaceChars)
        q == IF p = 0 THEN 0 ELSE FirstIn(b, p + 1, n, SpaceChars)
        r == IF q = 0 THEN 0 ELSE FirstIn(b, q + 1, n, SpaceChars)
        e == IF r = 0 THEN n ELSE r - 1
    IN  IF /\ p > 1 /\ b[p] = SP
           /\ q > p + 1 /\ b[q] = SP
           /\ q < e
        THEN <<SubSeq(b, 1, p - 1), SubSeq(b, p + 1, q - 1), SubSeq(b, q + 1, e)>>
        ELSE None

\* ^(\S+) (\S+) (\S+)$ : the three captures, or None when nothing matches.
\* \S excludes SP, so the separators are the only space octets of a match.
RequestLineCaptures(b) ==
    LET n == Len(b)
        p == FirstIn(b, 1, n, SpaceChars)
        q == IF p = 0 THEN 0 ELSE FirstIn(b, p + 1, n, SpaceChars)
    IN  IF /\ p > 1 /\ b[p] = SP
           /\ q > p + 1 /\ b[q] = SP
           /\ q < n /\ FirstIn(b, q + 1, n, SpaceChars) = 0
        THEN <<SubSeq(b, 1, p - 1), SubSeq(b, p + 1, q - 1), SubSeq(b, q + 1, n)>>
        ELSE None

\* http::Method::from_bytes: a non-empty run of method-token octets.
MethodValid(b) == b # <<>> /\ \A i \in 1..Len(b) : b[i] \in TokenChars

\* http::Uri::from_shared, abstracted to its octet class: visible ASCII
\* without the octets no URI reference may hold.
UriChars == (33..126) \ {34, 60, 62, 92, 94, 96, 123, 124, 125}
UriValid(b) == b # <<>> /\ \A i \in 1..Len(b) : b[i] \in UriChars

HTTP10 == <<72, 84, 84, 80, 47, 49, 46, 48>>
HTTP11 == <<72, 84, 84, 80, 47, 49, 46, 49>>

parse_request_line(b) ==
    LET cap == RequestLineCaptures(b)
    IN  IF cap = None THEN Err(<<"Format">>)
        ELSE IF ~MethodValid(cap[1]) THEN Err(<<"Method">>)
        ELSE IF ~UriValid(cap[2]) THEN Err(<<"Uri">>)
        ELSE IF cap[3] = HTTP10 THEN Ok(<<cap[1], cap[2], "HTTP_10">>)
        ELSE IF cap[3] = HTTP11 THEN Ok(<<cap[1], cap[2], "HTTP_11">>)
        ELSE Err(<<"Version">>)

----------------------------------------------------------------------------
(* parse_header_field (lib.rs:198-221)                                     *)

\* A pattern that tolerates OWS between the field name and the colon.
HeaderFieldCapturesLax(b) ==
    LET n == Len(b)
        e == FirstNotIn(b, 1, n, TokenChars)
        c == IF e = 0 THEN 0 ELSE FirstNotIn(b, e, n, OWSChars)
        v1 == IF c = 0 THEN 0 ELSE FirstNotIn(b, c + 1, n, OWSChars)
        v2 == IF v1 = 0 THEN 0 ELSE LastNotIn(b, v1, n, OWSChars)
    IN  IF /\ e > 1 /\ c > 0 /\ b[c] = COLON
           /\ v1 > 0
           /\ \A i \in v1..v2 : b[i] \in VisibleChars \cup OWSChars
        THEN <<SubSeq(b, 1, e - 1), SubSeq(b, v1, v2)>>
        ELSE None

\* ^(token+):[\t ]*(vis([\t vis]*vis)?)[\t ]*$ : captures 1 and 2, or None.
HeaderFieldCaptures(b) ==
    LET n == Len(b)
        c == FirstNotIn(b, 1, n, TokenChars)
        v1 == IF c = 0 THEN 0 ELSE FirstNotIn(b, c + 1, n, OWSChars)
        v2 == IF v1 = 0 THEN 0 ELSE LastNotIn(b, v1, n, OWSChars)
    IN  IF /\ c > 1 /\ b[c] = COLON
           /\ v1 > 0
           /\ \A i \in v1..v2 : b[i] \in VisibleChars \cup OWSChars
        THEN <<SubSeq(b, 1, c - 1), SubSeq(b, v1, v2)>>
        ELSE None

\* http::header::HeaderName::from_bytes: validates and lower-cases.
HeaderNameChars == TokenChars \cup {DQUOTE}
HeaderNameValid(b) == b # <<>> /\ \A i \in 1..Len(b) : b[i] \in HeaderNameChars
HeaderNameOf(b) == [i \in 1..Len(b) |-> ToLower(b[i])]

\* http::header::HeaderValue::from_bytes: octets >= 32 except DEL, or HTAB.
HeaderValueValid(b) ==
    \A i \in 1..Len(b) : (b[i] >= 32 /\ b[i] # 127) \/ b[i] = HTAB

parse_header_field(b) ==
    LET cap == HeaderFieldCaptures(b)
    IN  IF cap = None THEN Err(<<"Format">>)
        ELSE IF ~HeaderNameValid(cap[1]) THEN Err(<<"Name">>)
        ELSE IF ~HeaderValueValid(cap[2]) THEN Err(<<"Value">>)
        ELSE Ok(<<HeaderNameOf(cap[1]), cap[2]>>)

----------------------------------------------------------------------------
(* parse_request_header (lib.rs:64-101)                                    *)

\* next_line: stream.take(LINE_CAP).read_until('\n', line).  The number of
\* octets read_until delivers from offset p when the stream does not fail.
ReadCount(st, p) ==
    LET lim == Min(Len(st) - p, LINE_CAP)
        nl == FirstIn(st, p + 1, p + lim, {LF})
    IN  IF nl = 0 THEN lim ELSE nl - p

\* Off by one: the cap test rejects the longest line the code accepts.
CountOkOffByOne(count) == count # 0 /\ count < LINE_CAP - 1

\* The closure's verdict on the count (lib.rs:73-77).
CountOk(count) == count # 0 /\ count # LINE_CAP

\* An insert that keeps the value already stored under the name.
HeaderMapInsertKeepFirst(map, name, value) ==
    [k \in DOMAIN map \cup {name} |-> IF k \in DOMAIN map THEN map[k] ELSE value]

\* HeaderMap::insert: the new value replaces every value of that name.
HeaderMapInsert(map, name, value) ==
    [k \in DOMAIN map \cup {name} |-> IF k = name THEN value ELSE map[k]]

EmptyMap == [k \in {} |-> <<>>]

\* impl From<InvalidRequestLine> for InvalidRequestHeader (lib.rs:44-48)
FromInvalidRequestLine(e) == <<"RequestLine">> \o e

\* A conversion that drops the header-field layer and its cause.
FromInvalidHeaderFieldFlat(e) == <<"Format">>

\* impl From<InvalidHeaderField> for InvalidRequestHeader (lib.rs:50-54)
FromInvalidHeaderField(e) == <<"HeaderField">> \o e

\* A framing test that is content with the LF alone.
FramedOkBareLF(l) == EndsWith(l, <<LF>>)

\* line.ends_with(b"\r\n") (lib.rs:83, 91)
FramedOk(l) == EndsWith(l, CRLF)

\* line.truncate(line.len() - 2) (lib.rs:86, 94)
Stripped(l) == SubSeq(l, 1, Len(l) - 2)

\* A lenient end-of-block test: a line that is no header field ends the block.
IsBlankLenient(l) == l = <<>> \/ ~parse_header_field(l).ok

\* line == b"" (lib.rs:95)
IsBlank(l) == l = <<>>

Fail(e) ==
    /\ pc' = "Failed"
    /\ result' = Err(e)
    /\ UNCHANGED <<method, uri, version, fields>>

\* One call of next_line followed by the CRLF check and the truncation:
\* either the stream read fails after delivering k octets of the line, or
\* the whole line is delivered.
NextLine(io, k) ==
    LET raw == SubSeq(stream, pos + 1, pos + k)
    IN  /\ pos' = pos + k
        /\ ioFailed' = io
        /\ line' = IF ~io /\ CountOk(k) /\ FramedOk(raw)
                   THEN Stripped(raw) ELSE raw

\* lib.rs:82-88
ReadRequestLine ==
    /\ pc = "AwaitingRequestLine"
    /\ \E io \in BOOLEAN :
       \E k \in IF io THEN {0, ReadCount(stream, pos)} ELSE {ReadCount(stream, pos)} :
        LET raw == SubSeq(stream, pos + 1, pos + k)
        IN  /\ NextLine(io, k)
            /\ IF io THEN Fail(<<"Io">>)
               ELSE IF ~CountOk(k) THEN Fail(<<"Format">>)
               ELSE IF ~FramedOk(raw) THEN Fail(<<"Format">>)
               ELSE LET r == parse_request_line(Stripped(raw))
                    IN  IF ~r.ok THEN Fail(FromInvalidRequestLine(r.err))
                        ELSE /\ method' = r.val[1]
                             /\ uri' = r.val[2]
                             /\ version' = r.val[3]
                             /\ fields' = EmptyMap
                             /\ pc' = "AwaitingFields"
                             /\ UNCHANGED result
    /\ UNCHANGED <<stream, input, mediaVars>>

\* lib.rs:89-100, one iteration of the loop
ReadFieldLine ==
    /\ pc = "AwaitingFields"
    /\ \E io \in BOOLEAN :
       \E k \in IF io THEN {0, ReadCount(stream, pos)} ELSE {ReadCount(stream, pos)} :
        LET raw == SubSeq(stream, pos + 1, pos + k)
        IN  /\ NextLine(io, k)
            /\ IF io THEN Fail(<<"Io">>)
               ELSE IF ~CountOk(k) THEN Fail(<<"Format">>)
               ELSE IF ~FramedOk(raw) THEN Fail(<<"Format">>)
               ELSE IF IsBlank(Stripped(raw))
                    THEN /\ pc' = "Done"
                         /\ result' = Ok([method |-> method, uri |-> uri,
                                          version |-> version, fields |-> fields])
                         /\ UNCHANGED <<method, uri, version, fields>>
               ELSE LET r == parse_header_field(Stripped(raw))
                    IN  IF ~r.ok THEN Fail(FromInvalidHeaderField(r.err))
                        ELSE /\ fields' = HeaderMapInsert(fields, r.val[1], r.val[2])
                             /\ pc' = "AwaitingFields"
                             /\ UNCHANGED <<method, uri, version, result>>
    /\ UNCHANGED <<stream, input, mediaVars>>

----------------------------------------------------------------------------
(* Streams for parse_request_header: every sequence of up to MaxLines      *)
(* lines of a menu of short lines, and streams that hold one line at the   *)
(* line cap between a few short prefixes and suffixes.                     *)

MaxLines == 4

Fill(n) == [i \in 1..n |-> 97]

\* "G / HTTP/1.1"
GoodRequestLine == <<71, 32, 47, 32>> \o HTTP11

ShortLines == {
    GoodRequestLine \o CRLF,
    <<71, 32, 32, 47, 32>> \o HTTP11 \o CRLF,           \* two spaces
    <<71, 32, 47, 32, 72, 84, 84, 80, 47, 50, 46, 48>> \o CRLF, \* HTTP/2.0
    <<72, 58, 32, 97>> \o CRLF,                          \* "H: a"
    <<104, 58, 98, 32>> \o CRLF,                         \* "h:b "
    <<72, 32, 58, 97>> \o CRLF,                          \* "H :a"
    <<88, 58, 128, LF>>,                                 \* bare LF
    <<88, 58, 97>>,                                      \* no terminator
    CRLF }

LongLines == {
    <<88, 58>> \o Fill(LINE_CAP - 5) \o CRLF,            \* LINE_CAP - 1 octets
    <<88, 58>> \o Fill(LINE_CAP - 4) \o CRLF,            \* LINE_CAP octets
    <<88, 58>> \o Fill(LINE_CAP - 2),                    \* LINE_CAP, no CRLF
    <<88, 58>> \o Fill(LINE_CAP - 3) \o CRLF,            \* CR at the cap
    <<88, 58>> \o Fill(LINE_CAP + 3),                    \* longer, no CRLF
    <<71, 32, 47>> \o Fill(LINE_CAP - 15) \o <<32>> \o HTTP11 \o CRLF }

BeforeLong == {
    <<>>,
    GoodRequestLine \o CRLF,
    GoodRequestLine \o CRLF \o <<72, 58, 32, 97>> \o CRLF }

AfterLong == {
    <<>>,
    CRLF,
    <<88, 58, 97>> \o CRLF \o CRLF,
    <<88, 58>> \o Fill(LINE_CAP - 2) }

RECURSIVE Concat(_)
Concat(ls) == IF ls = <<>> THEN <<>> ELSE Head(ls) \o Concat(Tail(ls))

ShortStreams ==
    { Concat(ls) : ls \in UNION { [1..n -> ShortLines] : n \in 0..MaxLines } }

LongStreams ==
    { a \o l \o b : a \in BeforeLong, l \in LongLines, b \in AfterLong }

InitHeader ==
    /\ stream \in ShortStreams \cup LongStreams
    /\ pos = 0
    /\ line = <<>>
    /\ pc = "AwaitingRequestLine"
    /\ method = <<>>
    /\ uri = <<>>
    /\ version = "none"
    /\ fields = EmptyMap
    /\ result = NoResult
    /\ ioFailed = FALSE
    /\ input = <<>>
    /\ s = <<>>
    /\ m = [type_ |-> <<>>, subtype |-> <<>>, parameters |-> EmptyMap]

NextHeader == ReadRequestLine \/ ReadFieldLine

SpecHeader == InitHeader /\ [][NextHeader]_vars

----------------------------------------------------------------------------
(* The lines of the consumed prefix of the stream, cut at each LF; a last  *)
(* segment without LF is a line cut off by the cap, the end of the stream  *)
(* or a failed read.                                                       *)

LFPos == {i \in 1..pos : stream[i] = LF}
NComplete == Cardinality(LFPos)
KthLF(k) ==
    IF k = 0 THEN 0
    ELSE CHOOSE i \in LFPos : Cardinality({j \in LFPos : j <= i}) = k
NSeg == NComplete + (IF pos > KthLF(NComplete) THEN 1 ELSE 0)
Seg(k) ==
    SubSeq(stream, KthLF(k - 1) + 1, IF k <= NComplete THEN KthLF(k) ELSE pos)

FramingBad(l) == Len(l) = LINE_CAP \/ ~EndsWith(l, CRLF)

LineParse(k) ==
    IF k = 1 THEN parse_request_line(SubSeq(Seg(k), 1, Len(Seg(k)) - 2))
    ELSE parse_header_field(SubSeq(Seg(k), 1, Len(Seg(k)) - 2))

LineBad(k) == FramingBad(Seg(k)) \/ ~LineParse(k).ok

Consumed(k) == SubSeq(Seg(k), 1, Len(Seg(k)) - 2)

----------------------------------------------------------------------------
\* What holds once the call has returned Ok.
C1_Returned ==
    /\ result.ok <=> pc = "Done"
    /\ pc = "Done" =>
        /\ NSeg >= 2
        /\ \A k \in 1..NSeg : EndsWith(Seg(k), CRLF)
        /\ Seg(NSeg) = CRLF
        /\ \A k \in 2..(NSeg - 1) :
              Seg(k) # CRLF /\ parse_header_field(Consumed(k)).ok
        /\ LET r == parse_request_line(Consumed(1))
           IN  /\ r.ok
               /\ result.val.method = r.val[1]
               /\ result.val.uri = r.val[2]
               /\ result.val.version = r.val[3]

\* The steps the call may take.
C1_Step ==
    \/ pc = "AwaitingRequestLine" /\ pc' \in {"AwaitingFields", "Failed"}
    \/ pc = "AwaitingFields" /\ pc' \in {"AwaitingFields", "Done", "Failed"}

(* C1: parse_request_header goes AwaitingRequestLine -> AwaitingFields ->  *)
(* Done.  It returns Ok only on reading a blank line while awaiting        *)
(* fields: the first line was accepted by parse_request_line, every line   *)
(* between it and the blank line by parse_header_field, the returned       *)
(* method, uri and version are those of the first line, and nothing is     *)
(* read once the call has returned.                                        *)
C1_Order == []C1_Returned /\ [][C1_Step]_vars

C1_Witness ==
    /\ pc = "Done"
    /\ NSeg >= 3
    /\ pos < Len(stream)

----------------------------------------------------------------------------
\* The (name, value) of field line k.
FieldOf(k) == parse_header_field(Consumed(k)).val

(* C2: on success the field map is the last-wins fold of the field lines   *)
(* read before the blank line: its names are exactly the (lower-cased)     *)
(* names of those lines, each holding the trimmed value of the last line   *)
(* with that name; a repeated name never fails the parse.                  *)
C2_FieldMap ==
    /\ pc = "Done" =>
        LET F == result.val.fields
            K == 2..(NSeg - 1)
        IN  /\ DOMAIN F = {FieldOf(k)[1] : k \in K}
            /\ \A k \in K :
                  (\A j \in K : j > k => FieldOf(j)[1] # FieldOf(k)[1])
                      => F[FieldOf(k)[1]] = FieldOf(k)[2]
    /\ (pc = "Failed" /\ ~ioFailed /\ NSeg >= 2 /\ line # <<>>)
          => LineBad(NSeg)

C2_Witness ==
    /\ pc = "Done"
    /\ \E j, k \in 2..(NSeg - 1) :
          /\ j < k
          /\ Consumed(j)[1] # Consumed(k)[1]
          /\ FieldOf(j)[1] = FieldOf(k)[1]
          /\ FieldOf(j)[2] # FieldOf(k)[2]

----------------------------------------------------------------------------
\* The error the layer that rejects line k reports.
ExpectedError(k) ==
    IF FramingBad(Seg(k)) THEN <<"Format">>
    ELSE IF k = 1 THEN <<"RequestLine">> \o parse_request_line(Consumed(k)).err
    ELSE <<"HeaderField">> \o parse_header_field(Consumed(k)).err

(* C3: the first malformed line ends the parse with an error and no        *)
(* RequestHeader, nothing more is read, and the error names the layer:     *)
(* RequestLine(e) / HeaderField(e) with the parser's own e, Format for     *)
(* line framing, Io for a failed stream read.                              *)
C3_FailClosed ==
    pc = "Failed" =>
        /\ ~result.ok /\ result.val = <<>>
        /\ ~ENABLED NextHeader
        /\ IF ioFailed THEN result.err = <<"Io">>
           ELSE /\ \A k \in 1..(NSeg - 1) :
                      ~LineBad(k) /\ (k >= 2 => Seg(k) # CRLF)
                /\ IF NSeg >= 1 /\ (LineBad(NSeg) \/ (NSeg >= 2 /\ Seg(NSeg) = CRLF))
                   THEN result.err = ExpectedError(NSeg)
                   ELSE pos = Len(stream) /\ result.err = <<"Format">>

C3_Witness ==
    /\ pc = "Failed"
    /\ ~ioFailed
    /\ NSeg >= 3
    /\ result.err = <<"HeaderField", "Format">>
    /\ pos < Len(stream)

----------------------------------------------------------------------------
(* C4: a line is accepted only if its last two octets are CR LF.  A bare   *)
(* LF, a last line cut off by the end of the stream and an end of stream   *)
(* where a line was expected each fail with Format, and Ok is never        *)
(* returned for a stream that ends before the blank line.                  *)

C4_Framing ==
    /\ pc \in {"AwaitingFields", "Done"} =>
          \A k \in 1..NSeg : EndsWith(Seg(k), CRLF)
    /\ pc = "Failed" => \A k \in 1..(NSeg - 1) : EndsWith(Seg(k), CRLF)
    /\ (pc = "Failed" /\ ~ioFailed /\ (NSeg = 0 \/ ~EndsWith(Seg(NSeg), CRLF)))
          => result.err = <<"Format">>
    /\ (pc = "Failed" /\ ~ioFailed /\ line = <<>> /\ pos = Len(stream)
            /\ (NSeg >= 1 => ~LineBad(NSeg)))
          => result.err = <<"Format">>
    /\ pc = "Done" => NSeg >= 2 /\ Seg(NSeg) = CRLF

C4_Witness ==
    /\ pc = "Failed"
    /\ ~ioFailed
    /\ NSeg >= 2
    /\ EndsWith(Seg(NSeg), <<LF>>)
    /\ ~EndsWith(Seg(NSeg), CRLF)
    /\ result.err = <<"Format">>

----------------------------------------------------------------------------
(* C5: with max_len = LINE_CAP, a line that has no CRLF within its first   *)
(* max_len octets fails with Format, a line of max_len - 1 octets ending   *)
(* in CRLF is accepted by the line reader, and no more than max_len octets *)
(* are buffered for a line.                                                *)

C5_LineCap ==
    /\ Len(line) <= LINE_CAP
    /\ \A k \in 1..NSeg : Len(Seg(k)) <= LINE_CAP
    /\ (pc = "Failed" /\ ~ioFailed /\ NSeg >= 1
            /\ Len(Seg(NSeg)) = LINE_CAP /\ ~EndsWith(Seg(NSeg), CRLF))
          => result.err = <<"Format">>
    /\ (~ioFailed /\ NSeg >= 1
            /\ Len(Seg(NSeg)) = LINE_CAP - 1 /\ EndsWith(Seg(NSeg), CRLF))
          => \/ line = Consumed(NSeg) /\ result.err # <<"Format">>
             \/ line = <<>> /\ pos = Len(stream) /\ pc = "Failed"

C5_Witness ==
    /\ pc = "Failed"
    /\ ~ioFailed
    /\ NSeg >= 2
    /\ Len(Seg(NSeg - 1)) = LINE_CAP - 1
    /\ Len(Seg(NSeg)) = LINE_CAP
    /\ result.err = <<"Format">>

----------------------------------------------------------------------------
(* Direct calls of the pure parsers: Init draws the argument, the action   *)
(* applies the function.                                                   *)

InitCall(inputs, at) ==
    /\ input \in inputs
    /\ pc = at
    /\ stream = <<>>
    /\ pos = 0
    /\ line = <<>>
    /\ method = <<>>
    /\ uri = <<>>
    /\ version = "none"
    /\ fields = EmptyMap
    /\ result = NoResult
    /\ ioFailed = FALSE
    /\ s = <<>>
    /\ m = [type_ |-> <<>>, subtype |-> <<>>, parameters |-> EmptyMap]

\* Request lines: lead, method, separator, target, separator, version, trail.
MaxSpaces == 2

Spaces(n) == [i \in 1..n |-> SP]

LineSeparators == {<<>>, <<HTAB>>} \cup {Spaces(n) : n \in 1..MaxSpaces}
LineMethods == {<<>>, <<71>>, <<71, 69, 84>>, <<40>>}          \* G GET (
LineTargets == {<<>>, <<47>>, <<42>>, <<47, 128>>}             \* / * /\x80
LineVersions == {<<>>, HTTP10, HTTP11, <<120>>,
    <<72, 84, 84, 80, 47, 48, 46, 57>>,                        \* HTTP/0.9
    <<72, 84, 84, 80, 47, 50, 46, 48>>,                        \* HTTP/2.0
    <<104, 116, 116, 112, 47, 49, 46, 49>>}                    \* http/1.1
LineLeads == {<<>>, <<SP>>}
LineTrails == {<<>>, <<SP>>, <<SP, 120>>, <<CR>>, <<LF>>, <<11>>}

LineInputs ==
    { a \o w \o x \o t \o y \o v \o z :
        a \in LineLeads, w \in LineMethods, x \in LineSeparators,
        t \in LineTargets, y \in LineSeparators, v \in LineVersions,
        z \in LineTrails }

CallParseRequestLine ==
    /\ pc = "CallRequestLine"
    /\ result' = parse_request_line(input)
    /\ pc' = "Returned"
    /\ UNCHANGED <<headerVars, input, mediaVars>>

InitLine == InitCall(LineInputs, "CallRequestLine")
SpecLine == InitLine /\ [][CallParseRequestLine]_vars

\* Header-field lines: every octet string up to MaxFieldLen over an
\* alphabet with one octet of each class the pattern tells apart, alone and
\* as what follows a field name and its colon.
MaxFieldLen == 5

FieldAlphabet == {72, COLON, SP, HTAB, 128, CR, LF}            \* H : SP HT \x80

FieldTails == UNION { [1..n -> FieldAlphabet] : n \in 0..MaxFieldLen }

\* The strings themselves, and each behind the field name "H" and its colon.
FieldInputs == FieldTails \cup { <<72, COLON>> \o b : b \in FieldTails }

CallParseHeaderField ==
    /\ pc = "CallHeaderField"
    /\ result' = parse_header_field(input)
    /\ pc' = "Returned"
    /\ UNCHANGED <<headerVars, input, mediaVars>>

InitField == InitCall(FieldInputs, "CallHeaderField")
SpecField == InitField /\ [][CallParseHeaderField]_vars

----------------------------------------------------------------------------
(* The grammar as the specification words it, independent of the scans.    *)

IsTchar(c) ==
    \/ c \in 48..57 \/ c \in 65..90 \/ c \in 97..122
    \/ c \in {33, 35, 36, 37, 38, 39, 42, 43, 45, 46, 94, 95, 96, 124, 126}
IsOWS(c) == c = 9 \/ c = 32
IsVisibleOrOpaque(c) == (c >= 33 /\ c <= 126) \/ (c >= 128 /\ c <= 255)
IsWhitespace(c) == c \in {9, 10, 11, 12, 13, 32}

All(b, P(_)) == \A i \in 1..Len(b) : P(b[i])
IsToken(b) == Len(b) >= 1 /\ All(b, IsTchar)
IsOWSRun(b) == All(b, IsOWS)
IsRun(b) == Len(b) >= 1 /\ \A i \in 1..Len(b) : ~IsWhitespace(b[i])
IsFieldContent(b) ==
    /\ Len(b) >= 1
    /\ IsVisibleOrOpaque(b[1]) /\ IsVisibleOrOpaque(b[Len(b)])
    /\ \A i \in 1..Len(b) : IsVisibleOrOpaque(b[i]) \/ IsOWS(b[i])

Part(b, i, j) == SubSeq(b, i, j)

\* The maximal whitespace-free runs of b, counted.
RunCount(b) ==
    Cardinality({i \in 1..Len(b) :
        ~IsWhitespace(b[i]) /\ (i = 1 \/ IsWhitespace(b[i - 1]))})

----------------------------------------------------------------------------
\* The Version of a recognized literal.
VersionOf(v) == IF v = HTTP10 THEN "HTTP_10" ELSE "HTTP_11"

(* C6: parse_request_line returns the three decoded values for every       *)
(* METHOD SP TARGET SP VERSION whose method and target are valid and whose *)
(* version is HTTP/1.0 or HTTP/1.1; it fails with Format on two            *)
(* consecutive spaces, a fourth token or other trailing content, leading   *)
(* or trailing whitespace and fewer than three tokens, and with Version on *)
(* an otherwise well-formed line with any other version literal.           *)
C6_RequestLine ==
    pc = "Returned" =>
        /\ \A i, j \in 1..Len(input) :
              LET w == Part(input, 1, i - 1)
                  t == Part(input, i + 1, j - 1)
                  v == Part(input, j + 1, Len(input))
              IN  (/\ i < j /\ input[i] = 32 /\ input[j] = 32
                   /\ IsRun(w) /\ IsRun(t) /\ IsRun(v)
                   /\ MethodValid(w) /\ UriValid(t))
                  => IF v \in {HTTP10, HTTP11}
                     THEN result = Ok(<<w, t, VersionOf(v)>>)
                     ELSE result = Err(<<"Version">>)
        /\ (\/ \E i \in 1..(Len(input) - 1) : input[i] = 32 /\ input[i + 1] = 32
            \/ RunCount(input) # 3
            \/ input # <<>> /\ IsWhitespace(input[1])
            \/ input # <<>> /\ IsWhitespace(input[Len(input)]))
              => result = Err(<<"Format">>)

C6_Witness ==
    /\ pc = "Returned"
    /\ result = Ok(<<(<<71, 69, 84>>), (<<42>>), "HTTP_10">>)

----------------------------------------------------------------------------
\* The index of the first colon of b, or 0.
FirstColon(b) ==
    IF \E i \in 1..Len(b) : b[i] = 58
    THEN CHOOSE i \in 1..Len(b) : b[i] = 58 /\ \A j \in 1..(i - 1) : b[j] # 58
    ELSE 0

(* C7: parse_header_field returns (name, value) for every line             *)
(* name ":" OWS value OWS with a token name and non-empty field-content    *)
(* value: the OWS around the value is removed, its interior whitespace and *)
(* its octets 0x80-0xFF are kept; the name is returned as a HeaderName,    *)
(* which holds it in lower case.  A line with a space or tab between name  *)
(* and colon, with an empty name or with no colon fails with Format.       *)
C7_HeaderField ==
    pc = "Returned" =>
        /\ \A c, a, z \in 1..Len(input) :
              LET name == Part(input, 1, c - 1)
                  value == Part(input, a, z)
              IN  (/\ c < a /\ a <= z /\ input[c] = 58
                   /\ IsToken(name)
                   /\ IsOWSRun(Part(input, c + 1, a - 1))
                   /\ IsFieldContent(value)
                   /\ IsOWSRun(Part(input, z + 1, Len(input))))
                  => result = Ok(<<[i \in 1..Len(name) |-> ToLower(name[i])], value>>)
        /\ (\/ FirstColon(input) = 0
            \/ FirstColon(input) = 1
            \/ input # <<>> /\ IsOWS(input[1])
            \/ FirstColon(input) > 1 /\ IsOWS(input[FirstColon(input) - 1]))
              => result = Err(<<"Format">>)

C7_Witness ==
    /\ pc = "Returned"
    /\ input = <<72, 58, 32, 128, 9, 72, 32>>
    /\ result = Ok(<<(<<104>>), (<<128, 9, 72>>)>>)

----------------------------------------------------------------------------
(* C8 as stated: for every token name and every value without CR or LF,    *)
(* parse_header_field on name ":" value CR LF succeeds and returns the     *)
(* same (name, value).                                                     *)

----------------------------------------------------------------------------
(* parse_media_type (media_type.rs:17-62)                                  *)

\* crate::TOKEN, a character-class pattern without groups: token octets.
TOKEN == TokenChars

\* crate::QUOTED_STRING_1G: DQUOTE *( qdtext / quoted-pair ) DQUOTE.
QdtextChars == {9, 32, 33} \cup (35..91) \cup (93..126) \cup (128..255)
QuotedPairChars == {9, 32} \cup (33..126) \cup (128..255)

\* The index of the closing DQUOTE of a quoted-string whose content starts
\* at j, or 0 when the pattern does not match.
RECURSIVE QuotedStringEnd(_, _)
QuotedStringEnd(b, j) ==
    IF j > Len(b) THEN 0
    ELSE IF b[j] = DQUOTE THEN j
    ELSE IF b[j] = BACKSLASH
         THEN IF j + 1 <= Len(b) /\ b[j + 1] \in QuotedPairChars
              THEN QuotedStringEnd(b, j + 2) ELSE 0
    ELSE IF b[j] \in QdtextChars THEN QuotedStringEnd(b, j + 1)
    ELSE 0

\* The end of the longest run of octets of set that starts at i (i - 1 when
\* the run is empty): a greedy repetition.
RunEnd(b, i, set) ==
    LET f == FirstNotIn(b, i, Len(b), set)
    IN  IF f = 0 THEN (IF i > Len(b) THEN i - 1 ELSE Len(b)) ELSE f - 1

\* R1, ^(TOKEN)/(TOKEN): <<type, subtype, end of match>> or None.
R1Match(b) ==
    LET e1 == RunEnd(b, 1, TOKEN)
        e2 == RunEnd(b, e1 + 2, TOKEN)
    IN  IF e1 >= 1 /\ e1 + 1 <= Len(b) /\ b[e1 + 1] = SLASH /\ e2 >= e1 + 2
        THEN <<SubSeq(b, 1, e1), SubSeq(b, e1 + 2, e2), e2>>
        ELSE None

\* R2, ^[\t ]*;[\t ]*(TOKEN)=(TOKEN|QUOTED_STRING_1G):
\* <<name, value as written, end of match>> or None.
R2Match(b) ==
    LET a == RunEnd(b, 1, OWSChars) + 1
        c == RunEnd(b, a + 1, OWSChars) + 1
        e == RunEnd(b, c, TOKEN) + 1
        v == e + 1
        ve == IF v > Len(b) THEN 0
              ELSE IF b[v] \in TOKEN THEN RunEnd(b, v, TOKEN)
              ELSE IF b[v] = DQUOTE THEN QuotedStringEnd(b, v + 1)
              ELSE 0
    IN  IF /\ a <= Len(b) /\ b[a] = SEMI
           /\ e > c /\ e <= Len(b) /\ b[e] = EQUALS
           /\ ve > 0
        THEN <<SubSeq(b, c, e - 1), SubSeq(b, v, ve), ve>>
        ELSE None

\* An unescaping that keeps the octet after a backslash, whatever it is.
RECURSIVE UnescapePairs(_)
UnescapePairs(inner) ==
    IF inner = <<>> THEN <<>>
    ELSE IF Head(inner) = BACKSLASH /\ Len(inner) >= 2
         THEN <<inner[2]>> \o UnescapePairs(SubSeq(inner, 3, Len(inner)))
    ELSE <<Head(inner)>> \o UnescapePairs(Tail(inner))

\* media_type.rs:45-50: push every octet that is not a backslash.
NotBackslash(c) == c # BACKSLASH
Unescape(inner) == SelectSeq(inner, NotBackslash)

\* media_type.rs:41-53
DecodeValue(qv) ==
    IF qv[1] = DQUOTE THEN Unescape(SubSeq(qv, 2, Len(qv) - 1)) ELSE qv

\* media_type.rs:54-57, HashMap::insert
ParamInsert(map, name, value) ==
    [k \in DOMAIN map \cup {name} |-> IF k = name THEN value ELSE map[k]]

InvalidMediaType == Err(<<"InvalidMediaType">>)

\* A loop that stops at the first suffix that is no parameter and keeps
\* what it has.
NoSegmentIgnored(mt) == Ok(mt)

\* media_type.rs:40, R2.captures(s).ok_or(InvalidMediaType)?
NoSegment(mt) == InvalidMediaType

NewMediaType(cap) ==
    [type_ |-> cap[1], subtype |-> cap[2], parameters |-> EmptyMap]

WithParameter(mt, cap) ==
    [mt EXCEPT !.parameters = ParamInsert(@, cap[1], DecodeValue(cap[2]))]

Rest(b, cap) == SubSeq(b, cap[3] + 1, Len(b))

\* media_type.rs:39-61 as a function of the loop's state
RECURSIVE MediaLoop(_, _)
MediaLoop(rest, mt) ==
    IF Len(rest) = 0 THEN Ok(mt)
    ELSE LET cap == R2Match(rest)
         IN  IF cap = None THEN NoSegment(mt)
             ELSE MediaLoop(Rest(rest, cap), WithParameter(mt, cap))

parse_media_type(b) ==
    LET cap == R1Match(b)
    IN  IF cap = None THEN InvalidMediaType
        ELSE MediaLoop(Rest(b, cap), NewMediaType(cap))

\* media_type.rs:31-37
MatchType ==
    /\ pc = "CallMediaType"
    /\ LET cap == R1Match(input)
       IN  IF cap = None
           THEN /\ result' = InvalidMediaType
                /\ pc' = "Returned"
                /\ UNCHANGED <<s, m>>
           ELSE /\ m' = NewMediaType(cap)
                /\ s' = Rest(input, cap)
                /\ pc' = "Parameters"
                /\ UNCHANGED result
    /\ UNCHANGED <<headerVars, input>>

\* media_type.rs:39-59, one iteration of the loop
MatchParameter ==
    /\ pc = "Parameters"
    /\ Len(s) > 0
    /\ LET cap == R2Match(s)
       IN  IF cap = None
           THEN /\ result' = NoSegment(m)
                /\ pc' = "Returned"
                /\ UNCHANGED <<s, m>>
           ELSE /\ m' = WithParameter(m, cap)
                /\ s' = Rest(s, cap)
                /\ pc' = "Parameters"
                /\ UNCHANGED result
    /\ UNCHANGED <<headerVars, input>>

\* media_type.rs:39, 61
ReturnMediaType ==
    /\ pc = "Parameters"
    /\ Len(s) = 0
    /\ result' = Ok(m)
    /\ pc' = "Returned"
    /\ UNCHANGED <<headerVars, input, mediaVars>>

\* Media types: a head and up to MaxSegments pieces of a menu of parameter
\* segments, well-formed and not.
MaxSegments == 2

MediaHeads == {
    <<97, SLASH, 98>>,                  \* a/b
    <<97, SLASH>>,                      \* a/
    <<97, SLASH, 98, SLASH, 99>>,       \* a/b/c
    <<SP, 97, SLASH, 98>> }             \* leading space

MediaSegments == {
    <<SEMI, 112, EQUALS, 116>>,                               \* ;p=t
    <<SP, SEMI, HTAB, 112, EQUALS, 116>>,                     \* OWS;OWSp=t
    <<SEMI, SP, 80, EQUALS, 117>>,                            \* ; P=u
    <<SEMI, 112, EQUALS, DQUOTE, 116, DQUOTE>>,               \* ;p="t"
    <<SEMI, 112, EQUALS, DQUOTE, DQUOTE>>,                    \* ;p=""
    <<SP, SEMI, 113, EQUALS, DQUOTE, 128, BACKSLASH, 116, SP, DQUOTE>>,
    <<SEMI, 113, EQUALS, DQUOTE, BACKSLASH, BACKSLASH, BACKSLASH, DQUOTE,
      SEMI, DQUOTE>>,                                         \* ;q="\\\";"
    <<SEMI>>,
    <<SP>>,
    <<SEMI, 112, EQUALS>>,                                    \* ;p=
    <<SEMI, 112, SP, EQUALS, 116>>,                           \* ;p =t
    <<SEMI, 112, EQUALS, DQUOTE, 116>>,                       \* ;p="t
    <<SEMI, 112, EQUALS, DQUOTE, 116, BACKSLASH, DQUOTE>>,    \* ;p="t\"
    <<SEMI, 112, EQUALS, DQUOTE, 1, DQUOTE>>,                 \* control octet
    <<120>> }                                                 \* x

MediaInputs ==
    { h \o Concat(ls) : h \in MediaHeads,
        ls \in UNION { [1..n -> MediaSegments] : n \in 0..MaxSegments } }

InitMedia ==
    /\ InitCall(MediaInputs, "CallMediaType")

NextMedia == MatchType \/ MatchParameter \/ ReturnMediaType

SpecMedia == InitMedia /\ [][NextMedia]_vars

----------------------------------------------------------------------------
(* The parameter grammar as the specification words it.                    *)

IsQdtext(c) ==
    \/ c \in {9, 32, 33} \/ (c >= 35 /\ c <= 91) \/ (c >= 93 /\ c <= 126)
    \/ (c >= 128 /\ c <= 255)
IsQuotedPairOctet(c) == IsOWS(c) \/ IsVisibleOrOpaque(c)

\* Octet i of b follows a backslash that is not itself escaped.
RECURSIVE EscapedAt(_, _)
EscapedAt(b, i) == i > 1 /\ b[i - 1] = 92 /\ ~EscapedAt(b, i - 1)

IsQuotedContent(b) ==
    \A i \in 1..Len(b) :
        IF EscapedAt(b, i) THEN IsQuotedPairOctet(b[i])
        ELSE (b[i] = 92 /\ i < Len(b)) \/ IsQdtext(b[i])

IsQuotedString(v) ==
    /\ Len(v) >= 2 /\ v[1] = 34 /\ v[Len(v)] = 34
    /\ IsQuotedContent(Part(v, 2, Len(v) - 1))

\* b with every backslash left out and the other octets in their order.
WithoutBackslashes(b) ==
    LET keep == {i \in 1..Len(b) : b[i] # 92}
    IN  [k \in 1..Cardinality(keep) |->
            b[CHOOSE i \in keep : Cardinality({j \in keep : j <= i}) = k]]

\* Around a ';' at a: where the OWS before it starts, where the name after
\* it starts, and where that name ends.
OWSStart(b, a) ==
    CHOOSE p \in 1..a :
        IsOWSRun(Part(b, p, a - 1)) /\ (p = 1 \/ ~IsOWS(b[p - 1]))
NameStart(b, a) ==
    CHOOSE c \in (a + 1)..(Len(b) + 1) :
        IsOWSRun(Part(b, a + 1, c - 1)) /\ (c = Len(b) + 1 \/ ~IsOWS(b[c]))
NameEnd(b, c) ==
    CHOOSE e \in c..(Len(b) + 1) :
        All(Part(b, c, e - 1), IsTchar) /\ (e = Len(b) + 1 \/ ~IsTchar(b[e]))

\* g is OWS ";" OWS name "=" ( token / quoted-string ).
IsSegment(g) ==
    \E a \in 1..Len(g) :
        /\ g[a] = 59 /\ IsOWSRun(Part(g, 1, a - 1))
        /\ LET c == NameStart(g, a)
               e == NameEnd(g, c)
               v == Part(g, e + 1, Len(g))
           IN  /\ e > c /\ e <= Len(g) /\ g[e] = 61
               /\ (IsToken(v) \/ IsQuotedString(v))

StartsWithSegment(b) == \E n \in 1..Len(b) : IsSegment(Part(b, 1, n))

\* b starts with type "/" subtype, the subtype ending at e.
IsTypeSubtype(b, e) ==
    \E d \in 2..(e - 1) :
        /\ b[d] = 47
        /\ IsToken(Part(b, 1, d - 1)) /\ IsToken(Part(b, d + 1, e))
        /\ (e = Len(b) \/ ~IsTchar(b[e + 1]))

OWSSamples == {<<>>, <<32>>, <<9, 32>>}

----------------------------------------------------------------------------
(* C9: parse_media_type stores, for a quoted-string value, the content     *)
(* between the quotes with every backslash removed and every other octet   *)
(* kept in order, and for a token value the token unchanged; so a token    *)
(* value and its quoted form give equal results whatever OWS surrounds the *)
(* ';'.  Stated of the last parameter of the input, the parameters before  *)
(* it being those of the input without it.                                 *)

C9_ParameterValue ==
    pc = "Returned" =>
        \A a \in 1..Len(input) :
            LET p == OWSStart(input, a)
                c == NameStart(input, a)
                e == NameEnd(input, c)
                name == Part(input, c, e - 1)
                v == Part(input, e + 1, Len(input))
                front == Part(input, 1, p - 1)
                pre == parse_media_type(front)
            IN  (/\ input[a] = 59
                 /\ e > c /\ e <= Len(input) /\ input[e] = 61
                 /\ (IsToken(v) \/ IsQuotedString(v))
                 /\ pre.ok)
                =>  /\ result.ok
                    /\ result.val.type_ = pre.val.type_
                    /\ result.val.subtype = pre.val.subtype
                    /\ DOMAIN result.val.parameters
                          = DOMAIN pre.val.parameters \cup {name}
                    /\ \A k \in DOMAIN pre.val.parameters \ {name} :
                          result.val.parameters[k] = pre.val.parameters[k]
                    /\ result.val.parameters[name] =
                          IF IsToken(v) THEN v
                          ELSE WithoutBackslashes(Part(v, 2, Len(v) - 1))
                    /\ IsToken(v) =>
                          \A o1, o2 \in OWSSamples :
                              parse_media_type(front \o o1 \o <<59>> \o o2
                                  \o name \o <<61, 34>> \o v \o <<34>>) = result

C9_Witness ==
    /\ pc = "Returned"
    /\ result.ok
    /\ DOMAIN result.val.parameters = {<<112>>, <<113>>}
    /\ result.val.parameters[<<112>>] = <<116>>
    /\ result.val.parameters[<<113>>] = <<34, 59>>

----------------------------------------------------------------------------
\* What each step of the call does with the rest of the input.
C10_Step ==
    /\ pc = "CallMediaType" =>
          IF \E e \in 1..Len(input) : IsTypeSubtype(input, e)
          THEN /\ pc' = "Parameters"
               /\ \E e \in 1..Len(input) :
                     IsTypeSubtype(input, e) /\ s' = Part(input, e + 1, Len(input))
          ELSE pc' = "Returned" /\ result' = Err(<<"InvalidMediaType">>)
    /\ (pc = "Parameters" /\ s # <<>>) =>
          IF StartsWithSegment(s)
          THEN /\ pc' = "Parameters"
               /\ Len(s') < Len(s)
               /\ \E n \in 1..Len(s) :
                     IsSegment(Part(s, 1, n)) /\ s' = Part(s, n + 1, Len(s))
          ELSE pc' = "Returned" /\ result' = Err(<<"InvalidMediaType">>)
    /\ (pc = "Parameters" /\ s = <<>>) => pc' = "Returned" /\ result'.ok
    /\ pc # "Returned"

(* C10: parse_media_type returns Ok only when the whole input is consumed  *)
(* as type "/" subtype and zero or more parameter segments: a remaining    *)
(* non-empty suffix that does not start with one more segment fails with   *)
(* InvalidMediaType, and every iteration consumes at least one octet, so  *)
(* the call returns: the rest shrinks with each step and a step is always  *)
(* possible until the call has returned.                                   *)
C10_WholeInput ==
    /\ [][C10_Step]_vars
    /\ [](result.ok => pc = "Returned" /\ s = <<>>)
    /\ [](pc = "Returned" \/ ENABLED NextMedia)

C10_Witness ==
    /\ pc = "Returned"
    /\ result = Err(<<"InvalidMediaType">>)
    /\ DOMAIN m.parameters = {<<112>>}
    /\ s = <<59>>

=============================================================================
